---- MODULE Spec2Model ----
(***************************************************************************)
(* Block numbers and block ranges of store/postgres/src/block_range.rs:    *)
(* the BlockRange value bound into Postgres int4range columns, the         *)
(* BlockRangeContainsClause query fragment, the block_number resolver and  *)
(* the lazily initialised DISABLE_BRIN_BLOCK_RANGE switch.                 *)
(*                                                                         *)
(* Three specifications share the module:                                  *)
(*   SpecRange    a block range is built, bound into a row and queried     *)
(*   SpecResolve  block_number applied to a history event                  *)
(*   Spec         threads of one process running walk_ast concurrently     *)
(*                while the process environment changes                    *)
(***************************************************************************)
EXTENDS Integers, Sequences, FiniteSets, TLC

VARIABLES
    \* ---- SpecRange
    phase,        \* "new" | "built" | "stored" | "queried"
    origin,       \* how the BlockRange was built: "none" | "RangeFrom" | "struct"
    start,        \* the start of the RangeFrom the range was converted from
    range,        \* the BlockRange value: [lower, upper], each a Bound
    row,          \* the int4range Postgres holds after the range was bound
    target,       \* BlockRangeContainsClause.block of the query
    disabled,     \* value of *DISABLE_BRIN_BLOCK_RANGE seen by the query
    frag,         \* the AstPass after walk_ast
    selected,     \* SQL value of the whole emitted predicate on the row
    primary,      \* SQL value of the primary clause alone on the row
    current,      \* SQL value of BLOCK_RANGE_CURRENT on the row
    \* ---- SpecResolve
    event,        \* the HistoryEvent given to block_number
    resolved,     \* what block_number did: returned a value or panicked
    \* ---- Spec
    env,          \* process environment entry DISABLE_BRIN_BLOCK_RANGE
    envChanges,   \* number of environment changes so far
    lazyState,    \* state of the lazy_static cell: "uninit" | "running" | "done"
    lazyValue,    \* the bool the cell holds once initialised
    initEnv,      \* the environment entry the initialiser read
    initCount,    \* how many times the initialiser ran
    pc,           \* per thread: position inside walk_ast
    block,        \* per thread: self.block
    out,          \* per thread: the AstPass being written
    seen,         \* per thread: the value read from *DISABLE_BRIN_BLOCK_RANGE
    compiled,     \* the finished compilations
    calls         \* number of walk_ast calls started

rangeVars == <<phase, origin, start, range, row, target, disabled, frag,
               selected, primary, current>>
resolveVars == <<event, resolved>>
procVars == <<env, envChanges, lazyState, lazyValue, initEnv, initCount,
              pc, block, out, seen, compiled, calls>>
vars == <<rangeVars, resolveVars, procVars>>

----------------------------------------------------------------------------
(* Constants of the program *)

\* graph::prelude::BLOCK_NUMBER_MAX, pinned by the test block_number_max_is_i32_max
BLOCK_NUMBER_MAX == 2147483647

\* std::i32::MAX as used by block_number
I32_MAX == 2147483647

BLOCK_UNVERSIONED == -1

BLOCK_RANGE_COLUMN == "block_range"

\* The decimal literal a piece of SQL text embeds, digit by digit
SentinelDigits == <<2, 1, 4, 7, 4, 8, 3, 6, 4, 7>>

\* A near miss of the literal, used to perturb BLOCK_RANGE_CURRENT
StaleSentinelDigits == <<2, 1, 4, 7, 4, 8, 3, 6, 4, 6>>

BLOCK_RANGE_CURRENT_Stale ==
    [column |-> BLOCK_RANGE_COLUMN, op |-> "@>", literal |-> StaleSentinelDigits]

\* "block_range @> 2147483647"
BLOCK_RANGE_CURRENT ==
    [column |-> BLOCK_RANGE_COLUMN, op |-> "@>", literal |-> SentinelDigits]

----------------------------------------------------------------------------
(* Bounds of the model *)

\* how many block numbers next to 0 and next to BLOCK_NUMBER_MAX are tried
NearWidth == 2

\* number of threads compiling queries
NumThreads == 2

\* total number of walk_ast calls
MaxCalls == 2

\* number of changes made to the process environment
MaxEnvChanges == 2

----------------------------------------------------------------------------
(* Input domains *)

NearZero == 0..NearWidth
NearMax == {BLOCK_NUMBER_MAX - k : k \in 0..NearWidth}

\* block numbers (i32) used as bounds and as query targets
BlockNumbers == {BLOCK_UNVERSIONED} \cup NearZero \cup {1000} \cup NearMax

\* 16-bit limbs of the u64 numbers tried, most significant first
Limbs == {0, 1, 100, 32767, 32768, 65534, 65535}
U64Samples == {<<a, b, c, d>> : a \in {0, 1, 65535}, b \in {0, 1, 65535},
                                c \in Limbs, d \in Limbs}

----------------------------------------------------------------------------
(* std::ops::Bound and BlockRange *)

Included(nr) == [kind |-> "Included", nr |-> nr]
Excluded(nr) == [kind |-> "Excluded", nr |-> nr]
Unbounded == [kind |-> "Unbounded", nr |-> 0]

Bounds == {Included(n) : n \in BlockNumbers} \cup
          {Excluded(n) : n \in BlockNumbers} \cup {Unbounded}

\* a variant of clone_bound that loses the kind of an included bound
clone_bound_Excluding(bound) ==
    CASE bound.kind = "Included" -> Excluded(bound.nr)
      [] bound.kind = "Excluded" -> Excluded(bound.nr)
      [] bound.kind = "Unbounded" -> Unbounded

clone_bound(bound) ==
    CASE bound.kind = "Included" -> Included(bound.nr)
      [] bound.kind = "Excluded" -> Excluded(bound.nr)
      [] bound.kind = "Unbounded" -> Unbounded

\* RangeBounds for RangeFrom<BlockNumber>: `start..`
RangeFrom(n) == [start |-> n]
start_bound(r) == Included(r.start)
end_bound(r) == Unbounded

BlockRange(lower, upper) == [lower |-> lower, upper |-> upper]

\* impl From<RangeFrom<BlockNumber>> for BlockRange
FromRangeFrom(r) ==
    BlockRange(clone_bound(start_bound(r)), clone_bound(end_bound(r)))

NoRange == BlockRange(Unbounded, Unbounded)

----------------------------------------------------------------------------
(* SQL values and the Postgres operators the emitted text uses *)

SqlNull == [null |-> TRUE, v |-> 0]
SqlInt(n) == [null |-> FALSE, v |-> n]
SqlTrue == "true"
SqlFalse == "false"
SqlUnknown == "null"
SqlBool(b) == IF b THEN SqlTrue ELSE SqlFalse

\* three-valued AND
And3(a, b) ==
    IF a = SqlFalse \/ b = SqlFalse THEN SqlFalse
    ELSE IF a = SqlUnknown \/ b = SqlUnknown THEN SqlUnknown
    ELSE SqlTrue

\* a > b and a <= b on possibly-null integers
Gt3(a, b) == IF a.null \/ b.null THEN SqlUnknown ELSE SqlBool(a.v > b.v)
Le3(a, b) == IF a.null \/ b.null THEN SqlUnknown ELSE SqlBool(a.v <= b.v)
Lt3(a, b) == IF a.null \/ b.null THEN SqlUnknown ELSE SqlBool(a.v < b.v)

Coalesce(a, b) == IF a.null THEN b ELSE a

RECURSIVE ParseDigits(_)
\* the integer a decimal literal of the SQL text denotes
ParseDigits(ds) ==
    IF ds = <<>> THEN 0
    ELSE ParseDigits(SubSeq(ds, 1, Len(ds) - 1)) * 10 + ds[Len(ds)]

\* An int4range as Postgres holds it: canonical form [lo, hi), a null end
\* standing for an infinite one
PgRange(lo, hi) == [status |-> "ok", empty |-> FALSE, lo |-> lo, hi |-> hi]
PgEmpty == [status |-> "ok", empty |-> TRUE, lo |-> SqlNull, hi |-> SqlNull]
PgError == [status |-> "error", empty |-> FALSE, lo |-> SqlNull, hi |-> SqlNull]
NoRow == PgError

\* canonical lower end: `(n` becomes `[n+1`
CanonLower(b) ==
    CASE b.kind = "Unbounded" -> SqlNull
      [] b.kind = "Included" -> SqlInt(b.nr)
      [] b.kind = "Excluded" -> SqlInt(b.nr + 1)

\* canonical upper end: `n]` becomes `n+1)`
CanonUpper(b) ==
    CASE b.kind = "Unbounded" -> SqlNull
      [] b.kind = "Excluded" -> SqlInt(b.nr)
      [] b.kind = "Included" -> SqlInt(b.nr + 1)

\* ToSql<Range<Integer>, Pg> for BlockRange followed by the server reading
\* the value: the bound kinds are kept, then int4range makes it canonical;
\* an inverted range and an end that leaves int4 are rejected
to_sql(r) ==
    LET lo == r.lower
        hi == r.upper
        both == lo.kind # "Unbounded" /\ hi.kind # "Unbounded"
    IN  IF both /\ lo.nr > hi.nr THEN PgError
        ELSE IF both /\ lo.nr = hi.nr
                     /\ ~(lo.kind = "Included" /\ hi.kind = "Included")
        THEN PgEmpty
        ELSE IF (lo.kind = "Excluded" /\ lo.nr = I32_MAX)
                 \/ (hi.kind = "Included" /\ hi.nr = I32_MAX)
        THEN PgError
        ELSE LET clo == CanonLower(lo)
                 chi == CanonUpper(hi)
             IN  IF ~clo.null /\ ~chi.null /\ clo.v >= chi.v
                 THEN PgEmpty
                 ELSE PgRange(clo, chi)

\* block_range @> t
Contains(r, t) ==
    SqlBool(~r.empty /\ (r.lo.null \/ r.lo.v <= t) /\ (r.hi.null \/ t < r.hi.v))

\* lower(block_range), upper(block_range): null for an empty range and for
\* an infinite end
Lower(r) == IF r.empty THEN SqlNull ELSE r.lo
Upper(r) == IF r.empty THEN SqlNull ELSE r.hi

----------------------------------------------------------------------------
(* AstPass and BlockRangeContainsClause::walk_ast *)

\* a fresh pass: cacheable until told otherwise, nothing written
NewPass == [safe_to_cache |-> TRUE, sql |-> <<>>, binds |-> <<>>]

\* a variant of unsafe_to_cache_prepared that leaves the pass cacheable
unsafe_to_cache_prepared_Skipped(o) == o

unsafe_to_cache_prepared(o) == [o EXCEPT !.safe_to_cache = FALSE]

push_sql(o, text) == [o EXCEPT !.sql = Append(@, text)]
push_identifier(o, name) == [o EXCEPT !.sql = Append(@, "\"" \o name \o "\"")]
push_bind_param(o, value) ==
    [o EXCEPT !.sql = Append(@, "$"), !.binds = Append(@, value)]

TablePrefix == "c."

\* lines 116-119: the primary clause
PushPrimary(o, prefix, b) ==
    push_bind_param(
        push_sql(push_identifier(push_sql(o, prefix), BLOCK_RANGE_COLUMN),
                 " @> /* contains */ "),
        b)

\* a variant of the redundant clause that compares the lower end strictly
PushRedundant_StrictLower(o, b) ==
    LET o1 == push_sql(o, " and coalesce(upper(")
        o2 == push_identifier(o1, BLOCK_RANGE_COLUMN)
        o3 == push_sql(o2, "), 2147483647) > ")
        o4 == push_bind_param(o3, b)
        o5 == push_sql(o4, " and lower(")
        o6 == push_identifier(o5, BLOCK_RANGE_COLUMN)
        o7 == push_sql(o6, ") < ")
    IN  push_bind_param(o7, b)

\* lines 125-132: the redundant clause
PushRedundant(o, b) ==
    LET o1 == push_sql(o, " and coalesce(upper(")
        o2 == push_identifier(o1, BLOCK_RANGE_COLUMN)
        o3 == push_sql(o2, "), 2147483647) > ")
        o4 == push_bind_param(o3, b)
        o5 == push_sql(o4, " and lower(")
        o6 == push_identifier(o5, BLOCK_RANGE_COLUMN)
        o7 == push_sql(o6, ") <= ")
    IN  push_bind_param(o7, b)

\* variants of the condition of line 120
ExpandClause_NoSentinelGuard(dis, b) == ~dis
ExpandClause_Inclusive(dis, b) == ~dis /\ b <= BLOCK_NUMBER_MAX

\* line 120: !*DISABLE_BRIN_BLOCK_RANGE && self.block < BLOCK_NUMBER_MAX
ExpandClause(dis, b) == ~dis /\ b < BLOCK_NUMBER_MAX

\* walk_ast as a whole, given the value of *DISABLE_BRIN_BLOCK_RANGE
walk_ast(prefix, b, dis) ==
    LET o1 == unsafe_to_cache_prepared(NewPass)
        o2 == PushPrimary(o1, prefix, b)
    IN  IF ExpandClause(dis, b) THEN PushRedundant(o2, b) ELSE o2

PrimarySql(prefix) == PushPrimary(NewPass, prefix, 0).sql

\* whether the text written is the primary clause followed by the
\* redundant clause
HasRedundant(o, prefix) ==
    o.sql = PrimarySql(prefix) \o PushRedundant(NewPass, 0).sql
PrimaryOnly(o, prefix) == o.sql = PrimarySql(prefix)

\* the comparison a piece of the emitted text asks for
CompareSql(text, a, b) ==
    CASE text = ") <= " -> Le3(a, b)
      [] text = ") < " -> Lt3(a, b)

\* the SQL value of the emitted predicate on a row: the text is read back
\* clause by clause, each `$` taking the next bind parameter
EvalFragment(o, r) ==
    LET p == Contains(r, o.binds[1])
        n == Len(PrimarySql(TablePrefix))
    IN  IF Len(o.sql) = n THEN p
        ELSE And3(And3(p, Gt3(Coalesce(Upper(r), SqlInt(ParseDigits(SentinelDigits))),
                              SqlInt(o.binds[2]))),
                  CompareSql(o.sql[n + 7], Lower(r), SqlInt(o.binds[3])))

\* the SQL value of BLOCK_RANGE_CURRENT on a row
EvalCurrent(r) == Contains(r, ParseDigits(BLOCK_RANGE_CURRENT.literal))

\* a row is returned when the predicate is true, not when false or null
Selects(v) == v = SqlTrue

----------------------------------------------------------------------------
(* SpecRange: build a block range, bind it, query it *)

InitRangeVars ==
    /\ phase = "new"
    /\ origin = "none"
    /\ start = 0
    /\ range = NoRange
    /\ row = NoRow
    /\ target = 0
    /\ disabled = FALSE
    /\ frag = NewPass
    /\ selected = SqlUnknown
    /\ primary = SqlUnknown
    /\ current = SqlUnknown

\* BlockRange::from(n..)
ConvertRangeFrom(n) ==
    /\ phase = "new"
    /\ phase' = "built"
    /\ origin' = "RangeFrom"
    /\ start' = n
    /\ range' = FromRangeFrom(RangeFrom(n))
    /\ UNCHANGED <<row, target, disabled, frag, selected, primary, current>>
    /\ UNCHANGED <<resolveVars, procVars>>

\* BlockRange(lower, upper): the tuple struct holds any pair of bounds
ConstructBlockRange(lo, hi) ==
    /\ phase = "new"
    /\ phase' = "built"
    /\ origin' = "struct"
    /\ range' = BlockRange(lo, hi)
    /\ UNCHANGED <<start, row, target, disabled, frag, selected, primary, current>>
    /\ UNCHANGED <<resolveVars, procVars>>

\* the range is bound into a statement and stored
BindRange ==
    /\ phase = "built"
    /\ phase' = "stored"
    /\ row' = to_sql(range)
    /\ UNCHANGED <<origin, start, range, target, disabled, frag, selected,
                   primary, current>>
    /\ UNCHANGED <<resolveVars, procVars>>

\* a query for block t is compiled and evaluated on the stored row
Query(t, dis) ==
    /\ phase = "stored"
    /\ row.status = "ok"
    /\ phase' = "queried"
    /\ target' = t
    /\ disabled' = dis
    /\ frag' = walk_ast(TablePrefix, t, dis)
    /\ selected' = EvalFragment(walk_ast(TablePrefix, t, dis), row)
    /\ primary' = Contains(row, t)
    /\ current' = EvalCurrent(row)
    /\ UNCHANGED <<origin, start, range, row>>
    /\ UNCHANGED <<resolveVars, procVars>>

NextRange ==
    \/ \E n \in BlockNumbers : ConvertRangeFrom(n)
    \/ \E lo \in Bounds, hi \in Bounds : ConstructBlockRange(lo, hi)
    \/ BindRange
    \/ \E t \in BlockNumbers, dis \in BOOLEAN : Query(t, dis)

----------------------------------------------------------------------------
(* u64 numbers, four 16-bit limbs, most significant first *)

LimbBase == 65536
HalfLimb == 32768

\* a < b on u64
U64Less(a, b) ==
    \E i \in 1..4 : a[i] < b[i] /\ \A j \in 1..(i - 1) : a[j] = b[j]

\* `n as u64` for an i32: sign extension
I32AsU64(n) ==
    IF n >= 0 THEN <<0, 0, n \div LimbBase, n % LimbBase>>
    ELSE LET m == (n + I32_MAX) + 1
         IN  <<LimbBase - 1, LimbBase - 1, HalfLimb + (m \div LimbBase), m % LimbBase>>

\* `x as i32` for a u64: the low 32 bits, read as two's complement
U64AsI32(x) ==
    IF x[3] < HalfLimb THEN x[3] * LimbBase + x[4]
    ELSE (x[3] - LimbBase) * LimbBase + x[4]

HistoryEvent(number) == [block_ptr |-> [number |-> number]]

Returned(v) == [status |-> "returned", value |-> v]
Panicked == [status |-> "panic", value |-> 0]
NotCalled == [status |-> "none", value |-> 0]

\* a variant of block_number whose comparison admits i32::MAX itself
block_number_Inclusive(history_event) ==
    LET block_ptr == history_event.block_ptr
    IN  IF ~U64Less(I32AsU64(I32_MAX), block_ptr.number)
        THEN Returned(U64AsI32(block_ptr.number))
        ELSE Panicked

\* block_number: narrow when below i32::MAX, panic otherwise
block_number(history_event) ==
    LET block_ptr == history_event.block_ptr
    IN  IF U64Less(block_ptr.number, I32AsU64(I32_MAX))
        THEN Returned(U64AsI32(block_ptr.number))
        ELSE Panicked

InitResolveVars ==
    /\ event = HistoryEvent(<<0, 0, 0, 0>>)
    /\ resolved = NotCalled

\* a caller resolves the block number of its history event
ResolveBlock ==
    /\ resolved.status = "none"
    /\ resolved' = block_number(event)
    /\ UNCHANGED <<event, rangeVars, procVars>>

----------------------------------------------------------------------------
(* The process environment and the lazy_static cell *)

EnvAbsent == [present |-> FALSE, bytes |-> <<>>]
EnvSet(bytes) == [present |-> TRUE, bytes |-> bytes]

\* values tried for the variable: empty, "1", a two-byte character, and a
\* byte string that is not UTF-8
EnvByteStrings == {<<>>, <<49>>, <<195, 169>>, <<255>>}
EnvEntries == {EnvAbsent} \cup {EnvSet(b) : b \in EnvByteStrings}

RECURSIVE IsUtf8(_)
\* whether a byte string is valid UTF-8 (one- and two-byte sequences; every
\* longer lead byte is followed by too few bytes in the strings tried)
IsUtf8(bs) ==
    IF bs = <<>> THEN TRUE
    ELSE IF bs[1] < 128 THEN IsUtf8(Tail(bs))
    ELSE IF bs[1] >= 194 /\ bs[1] <= 223
         THEN /\ Len(bs) >= 2
              /\ bs[2] >= 128 /\ bs[2] <= 191
              /\ IsUtf8(Tail(Tail(bs)))
    ELSE FALSE

\* env::var: Ok(value), Err(NotPresent) or Err(NotUnicode)
env_var(e) ==
    IF ~e.present THEN [ok |-> FALSE, err |-> "NotPresent"]
    ELSE IF ~IsUtf8(e.bytes) THEN [ok |-> FALSE, err |-> "NotUnicode"]
    ELSE [ok |-> TRUE, err |-> ""]

\* the initialiser: env::var("DISABLE_BRIN_BLOCK_RANGE").ok().is_some()
InitDisableBrin(e) == env_var(e).ok

\* a variant of the cell that forgets it has been initialised
OnceCompleted_Forgetful(st) == FALSE

\* lazy_static: the initialiser runs unless the cell is already complete
OnceCompleted(st) == st = "done"

----------------------------------------------------------------------------
(* Spec: threads of one process compiling queries *)

Threads == 1..NumThreads

\* targets the threads compile for
ProcBlocks == {0, BLOCK_NUMBER_MAX - 1, BLOCK_NUMBER_MAX}

InitProcVars ==
    /\ env \in EnvEntries
    /\ envChanges = 0
    /\ lazyState = "uninit"
    /\ lazyValue = FALSE
    /\ initEnv = EnvAbsent
    /\ initCount = 0
    /\ pc = [t \in Threads |-> "idle"]
    /\ block = [t \in Threads |-> 0]
    /\ out = [t \in Threads |-> NewPass]
    /\ seen = [t \in Threads |-> FALSE]
    /\ compiled = {}
    /\ calls = 0

IdleProcVars ==
    /\ env = EnvAbsent
    /\ envChanges = 0
    /\ lazyState = "uninit"
    /\ lazyValue = FALSE
    /\ initEnv = EnvAbsent
    /\ initCount = 0
    /\ pc = [t \in Threads |-> "idle"]
    /\ block = [t \in Threads |-> 0]
    /\ out = [t \in Threads |-> NewPass]
    /\ seen = [t \in Threads |-> FALSE]
    /\ compiled = {}
    /\ calls = 0

\* the environment of the running process is changed (set_var, remove_var)
ChangeEnv(e) ==
    /\ envChanges < MaxEnvChanges
    /\ e # env
    /\ env' = e
    /\ envChanges' = envChanges + 1
    /\ UNCHANGED <<lazyState, lazyValue, initEnv, initCount, pc, block, out,
                   seen, compiled, calls>>
    /\ UNCHANGED <<rangeVars, resolveVars>>

\* BlockRangeContainsClause::new(prefix, b).walk_ast(out) is entered
Call(t, b) ==
    /\ pc[t] = "idle"
    /\ calls < MaxCalls
    /\ calls' = calls + 1
    /\ block' = [block EXCEPT ![t] = b]
    /\ out' = [out EXCEPT ![t] = NewPass]
    /\ pc' = [pc EXCEPT ![t] = "mark"]
    /\ UNCHANGED <<env, envChanges, lazyState, lazyValue, initEnv, initCount,
                   seen, compiled>>
    /\ UNCHANGED <<rangeVars, resolveVars>>

\* line 105
MarkUnsafe(t) ==
    /\ pc[t] = "mark"
    /\ out' = [out EXCEPT ![t] = unsafe_to_cache_prepared(out[t])]
    /\ pc' = [pc EXCEPT ![t] = "primary"]
    /\ UNCHANGED <<env, envChanges, lazyState, lazyValue, initEnv, initCount,
                   block, seen, compiled, calls>>
    /\ UNCHANGED <<rangeVars, resolveVars>>

\* lines 116-119
EmitPrimary(t) ==
    /\ pc[t] = "primary"
    /\ out' = [out EXCEPT ![t] = PushPrimary(out[t], TablePrefix, block[t])]
    /\ pc' = [pc EXCEPT ![t] = "toggle"]
    /\ UNCHANGED <<env, envChanges, lazyState, lazyValue, initEnv, initCount,
                   block, seen, compiled, calls>>
    /\ UNCHANGED <<rangeVars, resolveVars>>

\* line 120, *DISABLE_BRIN_BLOCK_RANGE: read the cell when it is complete,
\* otherwise become the thread that initialises it; a thread that finds the
\* initialiser running waits
DerefToggle(t) ==
    /\ pc[t] = "toggle"
    /\ lazyState # "running"
    /\ IF OnceCompleted(lazyState)
       THEN /\ seen' = [seen EXCEPT ![t] = lazyValue]
            /\ pc' = [pc EXCEPT ![t] = "branch"]
            /\ UNCHANGED lazyState
       ELSE /\ lazyState' = "running"
            /\ pc' = [pc EXCEPT ![t] = "init"]
            /\ UNCHANGED seen
    /\ UNCHANGED <<env, envChanges, lazyValue, initEnv, initCount, block, out,
                   compiled, calls>>
    /\ UNCHANGED <<rangeVars, resolveVars>>

\* lines 21-24: the initialiser runs and completes the cell
RunInitializer(t) ==
    /\ pc[t] = "init"
    /\ lazyValue' = InitDisableBrin(env)
    /\ initEnv' = env
    /\ initCount' = initCount + 1
    /\ lazyState' = "done"
    /\ seen' = [seen EXCEPT ![t] = InitDisableBrin(env)]
    /\ pc' = [pc EXCEPT ![t] = "branch"]
    /\ UNCHANGED <<env, envChanges, block, out, compiled, calls>>
    /\ UNCHANGED <<rangeVars, resolveVars>>

\* lines 120-135
Expand(t) ==
    /\ pc[t] = "branch"
    /\ out' = [out EXCEPT ![t] =
                 IF ExpandClause(seen[t], block[t])
                 THEN PushRedundant(out[t], block[t])
                 ELSE out[t]]
    /\ pc' = [pc EXCEPT ![t] = "done"]
    /\ UNCHANGED <<env, envChanges, lazyState, lazyValue, initEnv, initCount,
                   block, seen, compiled, calls>>
    /\ UNCHANGED <<rangeVars, resolveVars>>

\* walk_ast returns Ok(())
Return(t) ==
    /\ pc[t] = "done"
    /\ compiled' = compiled \cup
                     {[block |-> block[t], out |-> out[t], toggle |-> seen[t]]}
    /\ pc' = [pc EXCEPT ![t] = "idle"]
    /\ UNCHANGED <<env, envChanges, lazyState, lazyValue, initEnv, initCount,
                   block, out, seen, calls>>
    /\ UNCHANGED <<rangeVars, resolveVars>>

----------------------------------------------------------------------------
(* The specifications *)

Init == InitRangeVars /\ InitResolveVars /\ InitProcVars

Next ==
    \/ \E e \in EnvEntries : ChangeEnv(e)
    \/ \E t \in Threads, b \in ProcBlocks : Call(t, b)
    \/ \E t \in Threads : MarkUnsafe(t)
    \/ \E t \in Threads : EmitPrimary(t)
    \/ \E t \in Threads : DerefToggle(t)
    \/ \E t \in Threads : RunInitializer(t)
    \/ \E t \in Threads : Expand(t)
    \/ \E t \in Threads : Return(t)

Spec == Init /\ [][Next]_vars

InitRange == InitRangeVars /\ InitResolveVars /\ IdleProcVars

SpecRange == InitRange /\ [][NextRange]_vars

InitResolve ==
    /\ InitRangeVars
    /\ IdleProcVars
    /\ event \in {HistoryEvent(n) : n \in U64Samples}
    /\ resolved = NotCalled

NextResolve == ResolveBlock

SpecResolve == InitResolve /\ [][NextResolve]_vars

----------------------------------------------------------------------------
(* Properties *)

InBlockDomain(t) == t >= 0 /\ t <= BLOCK_NUMBER_MAX

\* C1: the range converted from `N..` is (Included(N), Unbounded), and for
\* every target T in [0, BLOCK_NUMBER_MAX] the primary clause
\* `block_range @> T` is true when T >= N and false when T < N.
C1_OpenRangeContainsFromStart ==
    (phase = "queried" /\ origin = "RangeFrom" /\ InBlockDomain(target)) =>
        /\ range = BlockRange(Included(start), Unbounded)
        /\ (target >= start => primary = SqlTrue)
        /\ (target < start => primary = SqlFalse)

C1_Witness ==
    /\ phase = "queried"
    /\ origin = "RangeFrom"
    /\ start = BLOCK_NUMBER_MAX - 1
    /\ target = start
    /\ primary = SqlTrue

\* C2: on the row of an unversioned entity, [-1, infinity), the whole
\* predicate walk_ast emits is true for every target in
\* [0, BLOCK_NUMBER_MAX], whether or not the redundant clause is disabled.
C2_UnversionedAlwaysSelected ==
    (/\ phase = "queried"
     /\ range = BlockRange(Included(BLOCK_UNVERSIONED), Unbounded)
     /\ InBlockDomain(target)) => selected = SqlTrue

C2_Witness ==
    /\ phase = "queried"
    /\ range = BlockRange(Included(BLOCK_UNVERSIONED), Unbounded)
    /\ target = BLOCK_NUMBER_MAX - 1
    /\ ~disabled
    /\ HasRedundant(frag, TablePrefix)
    /\ selected = SqlTrue

C4_RedundantIffBelowMaxAndEnabled ==
    \A c \in compiled :
        IF c.block < BLOCK_NUMBER_MAX /\ ~lazyValue
        THEN HasRedundant(c.out, TablePrefix)
        ELSE PrimaryOnly(c.out, TablePrefix)

C4_Witness ==
    /\ ~lazyValue
    /\ \E c \in compiled :
         c.block = BLOCK_NUMBER_MAX - 1 /\ HasRedundant(c.out, TablePrefix)
    /\ \E c \in compiled :
         c.block = BLOCK_NUMBER_MAX /\ PrimaryOnly(c.out, TablePrefix)

TwoPow31 == <<0, 0, HalfLimb, 0>>

\* C5 as stated: block_number returns the coordinate unchanged for every
\* coordinate below 2^31 and panics for every other coordinate.
C5_ReturnsBelowTwoPow31 ==
    resolved.status # "none" =>
        IF U64Less(event.block_ptr.number, TwoPow31)
        THEN /\ resolved.status = "returned"
             /\ I32AsU64(resolved.value) = event.block_ptr.number
        ELSE resolved = Panicked

C7_PresenceDisables ==
    \A c \in compiled :
        /\ initEnv.present => PrimaryOnly(c.out, TablePrefix)
        /\ (~initEnv.present /\ c.block < BLOCK_NUMBER_MAX) =>
              HasRedundant(c.out, TablePrefix)

ToggleAgreed ==
    /\ initCount <= 1
    /\ \A t \in Threads :
          pc[t] \in {"branch", "done"} =>
              lazyState = "done" /\ initCount = 1 /\ seen[t] = lazyValue
    /\ compiled # {} => initCount = 1
    /\ \A c \in compiled : c.toggle = lazyValue
    /\ \A c1, c2 \in compiled : c1.block = c2.block => c1.out = c2.out

ToggleFrozen ==
    lazyState = "done" => (lazyState' = "done" /\ lazyValue' = lazyValue)

\* C8: the initialiser of the switch runs at most once; once the cell is
\* complete its value never changes, whatever happens to the environment;
\* every compilation reads that one value, and two compilations for the
\* same target emit the same text.
C8_ToggleInitialisedOnce == []ToggleAgreed /\ [][ToggleFrozen]_vars

C8_Witness ==
    /\ initCount = 1
    /\ envChanges > 0
    /\ InitDisableBrin(env) # lazyValue
    /\ \E c1, c2 \in compiled : c1.block # c2.block

\* C9: inside walk_ast the pass is marked unsafe to cache before any SQL
\* is written, and every finished compilation is marked so, for every
\* target and both values of the switch.
C9_AlwaysUnsafeToCache ==
    /\ \A t \in Threads :
          /\ out[t].sql # <<>> => ~out[t].safe_to_cache
          /\ pc[t] \in {"primary", "toggle", "init", "branch", "done"} =>
                ~out[t].safe_to_cache
    /\ \A c \in compiled : ~c.out.safe_to_cache

C9_Witness ==
    /\ \E c \in compiled :
          c.block = BLOCK_NUMBER_MAX /\ c.toggle /\ ~c.out.safe_to_cache
    /\ \E t \in Threads :
          pc[t] = "primary" /\ out[t].sql = <<>> /\ ~out[t].safe_to_cache

\* C10: the literal of BLOCK_RANGE_CURRENT is BLOCK_NUMBER_MAX, and on a
\* stored range with an included lower bound and an upper bound that is
\* unbounded or excluded the clause is true exactly when the upper bound
\* is unbounded.
C10_CurrentIffUnboundedUpper ==
    /\ ParseDigits(BLOCK_RANGE_CURRENT.literal) = BLOCK_NUMBER_MAX
    /\ (/\ phase = "queried"
        /\ range.lower.kind = "Included"
        /\ range.upper.kind \in {"Unbounded", "Excluded"}) =>
          (current = SqlTrue <=> range.upper.kind = "Unbounded")

C10_Witness ==
    /\ phase = "queried"
    /\ range = BlockRange(Included(BLOCK_NUMBER_MAX - 1), Excluded(BLOCK_NUMBER_MAX))
    /\ current = SqlFalse

====
